---- MODULE Spec2Model ----
(***************************************************************************)
(* Model of concat.py: the script that concatenates every                  *)
(* "*CrudManager.java" file of the working directory into                  *)
(* "allCrudManagers.txt".                                                  *)
(*                                                                         *)
(* File names are sequences of one-character strings, file contents are    *)
(* sequences of bytes (0..255), decoded text is a sequence of code points. *)
(* The directory is the sequence of its entries in the order the operating *)
(* system enumerates them, which the script does not control.              *)
(***************************************************************************)
EXTENDS Integers, Sequences, FiniteSets, TLC

(***************************************************************************)
(* Bounds of the model.                                                    *)
(***************************************************************************)
\* Largest number of entries the working directory starts with.
MaxFiles == 3
\* Largest length, in bytes, of the content of the file that carries
\* arbitrary bytes.
MaxLen == 2
\* Largest number of runs of the script in one behaviour of SpecRuns.
MaxRuns == 2
\* Largest number of changes made to the directory between runs.
MaxEdits == 2

(***************************************************************************)
(* Characters and bytes.                                                   *)
(***************************************************************************)
\* Code points of the characters the file names of the model use.
Ord ==
    ("a" :> 97) @@ ("b" :> 98) @@ ("c" :> 99) @@ ("d" :> 100) @@ ("e" :> 101)
    @@ ("g" :> 103) @@ ("j" :> 106) @@ ("l" :> 108) @@ ("m" :> 109)
    @@ ("n" :> 110) @@ ("r" :> 114) @@ ("s" :> 115) @@ ("t" :> 116)
    @@ ("u" :> 117) @@ ("v" :> 118) @@ ("x" :> 120) @@ ("." :> 46)
    @@ ("A" :> 65) @@ ("B" :> 66) @@ ("C" :> 67) @@ ("M" :> 77)

\* "\n", "\r" and "-".
LF == 10
CR == 13
Dash == 45
\* The bytes file contents are made of: "x", "\n", "\r", 0xFF (which starts
\* no UTF-8 sequence), and 0xC3 0xA9 (U+00E9 in UTF-8; each of the two alone
\* is undecodable).
Bytes == {120, LF, CR, 255, 195, 169}

RECURSIVE SeqsUpTo(_, _)
\* All sequences over S of length at most n.
SeqsUpTo(S, n) ==
    IF n = 0 THEN {<<>>}
    ELSE LET shorter == SeqsUpTo(S, n - 1)
         IN  shorter \cup {Append(s, b) : s \in {t \in shorter : Len(t) = n - 1}, b \in S}

RECURSIVE Repeat(_, _)
Repeat(x, n) == IF n = 0 THEN <<>> ELSE <<x>> \o Repeat(x, n - 1)

RECURSIVE Flatten(_)
\* The concatenation of a sequence of sequences.
Flatten(ss) == IF ss = <<>> THEN <<>> ELSE Head(ss) \o Flatten(Tail(ss))

(***************************************************************************)
(* Names.                                                                  *)
(***************************************************************************)
CrudManagerJava ==
    <<"C", "r", "u", "d", "M", "a", "n", "a", "g", "e", "r", ".", "j", "a", "v", "a">>
DotCrudManager ==
    <<".", "C", "r", "u", "d", "M", "a", "n", "a", "g", "e", "r">>

\* The names a directory entry of the model can have.
NameLowerA == <<"a">> \o CrudManagerJava
NameUpperA == <<"A">> \o CrudManagerJava
NameUpperB == <<"B">> \o CrudManagerJava
NameAllLower ==
    <<"b", "c", "r", "u", "d", "m", "a", "n", "a", "g", "e", "r", ".", "j", "a", "v", "a">>
NameDotA == <<"a">> \o DotCrudManager
NameDotB == <<"B">> \o DotCrudManager
NameTxt == <<"c", ".", "t", "x", "t">>
Names == {NameLowerA, NameUpperA, NameUpperB, NameAllLower, NameDotA, NameDotB, NameTxt}

\* output_file = Path("allCrudManagers.txt")
output_file ==
    <<"a", "l", "l", "C", "r", "u", "d", "M", "a", "n", "a", "g", "e", "r", "s",
      ".", "t", "x", "t">>

\* The separator one dash short.
separatorShort == Repeat(45, 99) \o <<10>>

\* separator = "-" * 100 + "\n"
SeparatorDashes == 100
separator == Repeat(Dash, SeparatorDashes) \o <<LF>>

\* The suffix without the extension.
PatternSuffixNoExtension == <<".", "C", "r", "u", "d", "M", "a", "n", "a", "g", "e", "r">>

\* The literal part of the pattern "*CrudManager.java".
PatternSuffix == CrudManagerJava

\* str.lower() on one code point (the names are ASCII).
LowerCode(c) == IF c \in 65..90 THEN c + 32 ELSE c

\* The code points of a name.
Codes(name) == [k \in 1..Len(name) |-> Ord[name[k]]]

\* p.name.lower(), as code points.
NameLower(name) == [k \in 1..Len(name) |-> LowerCode(Ord[name[k]])]

\* The sort key: key=lambda p: p.name.lower()
SortKey(name) == NameLower(name)

\* Python's str "<": lexicographic by code point, a proper prefix is smaller.
StrLess(s, t) ==
    \E k \in 1..(Len(t)) :
        /\ k <= Len(s) + 1
        /\ \A j \in 1..(k - 1) : s[j] = t[j]
        /\ (k = Len(s) + 1 \/ s[k] < t[k])

\* The pattern "*CrudManager*": the literal anywhere in the name.
MatchesAnywhere(name, plat) ==
    \E k \in 1..Len(name) :
        /\ k + 10 <= Len(name)
        /\ SubSeq(name, k, k + 10)
               = <<"C", "r", "u", "d", "M", "a", "n", "a", "g", "e", "r">>

\* The name as the pattern matcher compares it: pathlib folds case on
\* Windows and compares exactly elsewhere.
MatchForm(name, plat) == IF plat = "nt" THEN NameLower(name) ELSE Codes(name)

\* Path(".").glob("*CrudManager.java") matches a name: anything, then the
\* literal suffix.
Matches(name, plat) ==
    LET n == MatchForm(name, plat)
        p == MatchForm(PatternSuffix, plat)
    IN  /\ Len(n) >= Len(p)
        /\ SubSeq(n, Len(n) - Len(p) + 1, Len(n)) = p

RECURSIVE InsertByKey(_, _)
\* x placed in the sorted sequence s after every element whose key is not
\* greater than its own (sorted() is stable).
InsertByKey(s, x) ==
    IF s = <<>> THEN <<x>>
    ELSE IF StrLess(SortKey(x), SortKey(s[Len(s)]))
         THEN Append(InsertByKey(SubSeq(s, 1, Len(s) - 1), x), s[Len(s)])
         ELSE Append(s, x)

RECURSIVE Sorted(_)
\* sorted(entries, key=lambda p: p.name.lower())
Sorted(s) ==
    IF s = <<>> THEN <<>>
    ELSE InsertByKey(Sorted(SubSeq(s, 1, Len(s) - 1)), s[Len(s)])

(***************************************************************************)
(* Text input and output.                                                  *)
(***************************************************************************)
RECURSIVE Decode(_)
\* bytes.decode("utf-8", errors="ignore"), for one- and two-byte sequences
\* (Bytes holds no lead byte of a longer one): an undecodable byte is
\* dropped and decoding resumes at the next byte.
Decode(b) ==
    IF b = <<>> THEN <<>>
    ELSE IF b[1] < 128 THEN <<b[1]>> \o Decode(Tail(b))
    ELSE IF b[1] \in 194..223 /\ Len(b) >= 2 /\ b[2] \in 128..191
         THEN <<(b[1] - 192) * 64 + (b[2] - 128)>> \o Decode(SubSeq(b, 3, Len(b)))
    ELSE Decode(Tail(b))

RECURSIVE ReadNewlines(_)
\* Reading in text mode with newline=None: "\r\n" and "\r" become "\n".
ReadNewlines(t) ==
    IF t = <<>> THEN <<>>
    ELSE IF t[1] = CR
         THEN IF Len(t) >= 2 /\ t[2] = LF
              THEN <<LF>> \o ReadNewlines(SubSeq(t, 3, Len(t)))
              ELSE <<LF>> \o ReadNewlines(Tail(t))
    ELSE <<t[1]>> \o ReadNewlines(Tail(t))

RECURSIVE Encode(_)
\* str.encode("utf-8") for code points below U+0800.
Encode(t) ==
    IF t = <<>> THEN <<>>
    ELSE (IF t[1] < 128 THEN <<t[1]>>
          ELSE <<192 + (t[1] \div 64), 128 + (t[1] % 64)>>) \o Encode(Tail(t))

\* errors left at its default.
errorsStrict == "strict"

\* errors="ignore" of file.open(...): what a decoding error does.
errors == "ignore"

\* Whether b holds a byte sequence that utf-8 cannot decode.
Undecodable(b) == Encode(Decode(b)) # b

\* Whether f.read() raises UnicodeDecodeError on content b.
DecodeRaises(b) == errors = "strict" /\ Undecodable(b)

\* f.read() on a file opened with encoding="utf-8", errors="ignore".
ReadText(b) == ReadNewlines(Decode(b))

\* os.linesep
LineSep(plat) == IF plat = "nt" THEN <<CR, LF>> ELSE <<LF>>

RECURSIVE WriteNewlines(_, _)
\* Writing in text mode with newline=None: "\n" becomes os.linesep.
WriteNewlines(t, plat) ==
    IF t = <<>> THEN <<>>
    ELSE (IF t[1] = LF THEN LineSep(plat) ELSE <<t[1]>>) \o WriteNewlines(Tail(t), plat)

\* The bytes out.write(text) adds to the output.
WriteBytes(t, plat) == Encode(WriteNewlines(t, plat))

(***************************************************************************)
(* The state.                                                              *)
(***************************************************************************)
VARIABLES
    platform,   \* "posix" or "nt": decides os.linesep and the case folding of glob
    listing,    \* the working directory: its entries' names, in enumeration order
    data,       \* the content (bytes) of every file, by name
    nested,     \* the names of the files of the subdirectory "sub"
    fault,      \* the file that cannot be opened or read, if any
    pc,         \* the statement the script is at
    files,      \* the sorted list the for loop iterates over
    idx,        \* the position of the loop in files
    buf,        \* bytes written to out and not yet flushed to the file
    outOpen,    \* whether the handle out is open
    inOpen,     \* the names of the input files whose handle f is open
    printed,    \* whether this run has printed its message
    runs,       \* the number of runs started
    edits,      \* the number of changes made to the directory
    pending,    \* whether the directory changed since the last run ended
    changed,    \* whether the directory changed between the previous run and this one
    prevDone,   \* whether the previous run ended with its message
    prevOut,    \* the content of the output file when the previous run ended
    lastOut,    \* the content of the output file when the latest run ended
    prevSnap,   \* the matched files and their contents, as the previous run saw them
    curSnap     \* the matched files and their contents, as this run saw them

vars ==
    <<platform, listing, data, nested, fault, pc, files, idx, buf, outOpen, inOpen,
      printed, runs, edits, pending, changed, prevDone, prevOut, lastOut, prevSnap,
      curSnap>>

env == <<platform, listing, data, nested, fault>>
history == <<runs, edits, pending, changed, prevDone, prevOut, lastOut, prevSnap, curSnap>>
runHistory == <<runs, edits, pending, changed, prevDone, prevSnap, curSnap>>

Platforms == {"posix", "nt"}
NoFault == [name |-> <<>>, kind |-> "none"]
\* The name of the file of the subdirectory.
NameNested == <<"d">> \o CrudManagerJava

\* The set of the elements of a sequence.
Range(s) == {s[k] : k \in 1..Len(s)}

\* The sequences without repetition of at most n elements of S.
RECURSIVE Arrangements(_, _)
Arrangements(S, n) ==
    IF n = 0 THEN {<<>>}
    ELSE LET shorter == Arrangements(S, n - 1)
         IN  shorter \cup {Append(s, x) : s \in {t \in shorter : Len(t) = n - 1}, x \in S}

NoRepeat(s) == \A j, k \in 1..Len(s) : j # k => s[j] # s[k]

\* A directory a file system of the platform can hold: on Windows two names
\* that differ only in case are the same name.
Coexist(s, plat) ==
    /\ NoRepeat(s)
    /\ plat = "nt" => \A j, k \in 1..Len(s) : j # k => NameLower(s[j]) # NameLower(s[k])

\* s with x inserted at position p.
InsertAt(s, p, x) == SubSeq(s, 1, p - 1) \o <<x>> \o SubSeq(s, p, Len(s))

\* The content a file of the model has unless stated otherwise: two letters
\* of its name, so that no two files have the same content.
DefaultContent(name) == <<Ord[name[1]], Ord[name[Len(name)]]>>

\* What an earlier use of the directory left in the output file.
StaleOutput == <<120, LF>>

(***************************************************************************)
(* The initial states: a working directory before the first run.           *)
(***************************************************************************)
\* The faults a directory can have: none, or one matched file that cannot be
\* opened (no permission, or it is a directory) or whose read fails.
Faults(l, plat) ==
    {NoFault} \cup
    {[name |-> n, kind |-> k] : n \in {m \in Range(l) : Matches(m, plat)},
                               k \in {"open", "read"}}

\* The state before the first run, for directory l with contents d.
Start(l, d, plat, nst, flt) ==
    /\ platform = plat
    /\ listing = l
    /\ data = d
    /\ nested = nst
    /\ fault = flt
    /\ pc = "open"
    /\ files = <<>>
    /\ idx = 0
    /\ buf = <<>>
    /\ outOpen = FALSE
    /\ inOpen = {}
    /\ printed = FALSE
    /\ runs = 1
    /\ edits = 0
    /\ pending = FALSE
    /\ changed = FALSE
    /\ prevDone = FALSE
    /\ prevOut = <<>>
    /\ lastOut = <<>>
    /\ prevSnap = <<>>
    /\ curSnap = <<>>

\* The contents of directory l where every file has its default content and
\* the output file, if it is there, has stale content.
DefaultData(l, nst) ==
    [n \in Range(l) \cup nst |->
        IF n = output_file THEN StaleOutput ELSE DefaultContent(n)]

\* Directories of at most MaxFiles entries with any of the names, in any
\* enumeration order, with or without an output file of an earlier use.
InitNames ==
    \E plat \in Platforms, l \in Arrangements(Names, MaxFiles),
       old \in BOOLEAN, nst \in SUBSET {NameNested} :
        /\ Coexist(l, plat)
        /\ LET ll == IF old THEN Append(l, output_file) ELSE l
           IN  \E flt \in Faults(ll, plat) : Start(ll, DefaultData(ll, nst), plat, nst, flt)

\* Directories where aCrudManager.java holds any bytes, alone or with a
\* file sorted after it.
InitBytes ==
    \E plat \in Platforms,
       l \in {<<NameLowerA>>, <<NameLowerA, NameUpperB>>, <<NameUpperB, NameLowerA>>},
       b \in SeqsUpTo(Bytes, MaxLen) :
        \E flt \in Faults(l, plat) :
            Start(l, [DefaultData(l, {}) EXCEPT ![NameLowerA] = b], plat, {}, flt)

Init == InitNames \/ InitBytes

(***************************************************************************)
(* The run: concat.py, statement by statement.                             *)
(***************************************************************************)
\* The content of a file just opened with mode "a": kept.
OpenForAppend(old) == old

\* The content of a file just opened with mode "w": truncated.
OpenForWrite(old) == <<>>

\* The output file is not opened until the files have been enumerated.
OpenOutputDeferred ==
    /\ pc = "open"
    /\ pc' = "glob"
    /\ UNCHANGED <<env, files, idx, buf, outOpen, inOpen, printed, history>>

\* with output_file.open("w", encoding="utf-8") as out:
\* creates the file if it is missing (the file system places the new entry
\* anywhere in the enumeration order) and truncates it.
OpenOutput ==
    /\ pc = "open"
    /\ IF output_file \in Range(listing)
       THEN /\ listing' = listing
            /\ data' = [data EXCEPT ![output_file] = OpenForWrite(@)]
       ELSE /\ \E p \in 1..(Len(listing) + 1) : listing' = InsertAt(listing, p, output_file)
            /\ data' = (output_file :> <<>>) @@ data
    /\ outOpen' = TRUE
    /\ buf' = <<>>
    /\ pc' = "glob"
    /\ UNCHANGED <<platform, nested, fault, files, idx, inOpen, printed, history>>

\* Every entry of the working directory, matching or not.
GlobAll(l, nst, plat) == l

RECURSIVE Filter(_, _)
\* The names of l that match the pattern, in the order of l.
Filter(l, plat) ==
    IF l = <<>> THEN <<>>
    ELSE (IF Matches(Head(l), plat) THEN <<Head(l)>> ELSE <<>>) \o Filter(Tail(l), plat)

\* Path(".").glob("*CrudManager.java"): the matching entries of the working
\* directory itself, in enumeration order; subdirectories are not entered.
Glob(l, nst, plat) == Filter(l, plat)

\* for file in sorted(Path(".").glob("*CrudManager.java"), key=...):
\* the list is built once, before the first iteration.
Enumerate ==
    /\ pc = "glob"
    /\ files' = Sorted(Glob(listing, nested, platform))
    /\ idx' = 1
    /\ pc' = "loop"
    /\ prevSnap' = curSnap
    /\ curSnap' = [n \in Range(files') |-> data[n]]
    /\ UNCHANGED <<env, buf, outOpen, inOpen, printed,
                   runs, edits, pending, changed, prevDone, prevOut, lastOut>>

\* with file.open("r", encoding="utf-8", errors="ignore") as f:
OpenInput ==
    /\ pc = "loop"
    /\ idx <= Len(files)
    /\ ~(fault.name = files[idx] /\ fault.kind = "open")
    /\ inOpen' = inOpen \cup {files[idx]}
    /\ pc' = "read"
    /\ UNCHANGED <<env, files, idx, buf, outOpen, printed, history>>

\* file.open raises OSError: nothing handles it, the run unwinds.
OpenInputFails ==
    /\ pc = "loop"
    /\ idx <= Len(files)
    /\ fault.name = files[idx] /\ fault.kind = "open"
    /\ pc' = "unwind"
    /\ UNCHANGED <<env, files, idx, buf, outOpen, inOpen, printed, history>>

\* out.write(f.read())
ReadAndWrite ==
    /\ pc = "read"
    /\ ~(fault.name = files[idx] /\ fault.kind = "read")
    /\ ~DecodeRaises(data[files[idx]])
    /\ buf' = buf \o WriteBytes(ReadText(data[files[idx]]), platform)
    /\ pc' = "close"
    /\ UNCHANGED <<env, files, idx, outOpen, inOpen, printed, history>>

\* f is never closed.
LeakInput(handles, name) == handles

\* The handles open after the with block of f is left.
ExitInput(handles, name) == handles \ {name}

\* f.read() raises: the with block of f is left, which closes f, and the
\* run unwinds.
ReadFails ==
    /\ pc = "read"
    /\ \/ fault.name = files[idx] /\ fault.kind = "read"
       \/ DecodeRaises(data[files[idx]])
    /\ inOpen' = ExitInput(inOpen, files[idx])
    /\ pc' = "unwind"
    /\ UNCHANGED <<env, files, idx, buf, outOpen, printed, history>>

\* The end of the with block of f: f is closed.
CloseInput ==
    /\ pc = "close"
    /\ inOpen' = ExitInput(inOpen, files[idx])
    /\ pc' = "sep"
    /\ UNCHANGED <<env, files, idx, buf, outOpen, printed, history>>

\* out.write("\n" + separator), then the next iteration.
WriteSeparator ==
    /\ pc = "sep"
    /\ buf' = buf \o WriteBytes(<<LF>> \o separator, platform)
    /\ idx' = idx + 1
    /\ pc' = "loop"
    /\ UNCHANGED <<env, files, outOpen, inOpen, printed, history>>

\* The buffer is lost.
NotFlushed(content, buffer) == content

\* The content of the output file after out is closed: closing flushes.
Flushed(content, buffer) == content \o buffer

\* The end of the with block of out, after the last iteration.
CloseOutput ==
    /\ pc = "loop"
    /\ idx > Len(files)
    /\ data' = [data EXCEPT ![output_file] = Flushed(@, buf)]
    /\ lastOut' = Flushed(data[output_file], buf)
    /\ prevOut' = lastOut
    /\ buf' = <<>>
    /\ outOpen' = FALSE
    /\ pc' = "print"
    /\ UNCHANGED <<platform, listing, nested, fault, files, idx, inOpen, printed,
                   runHistory>>

\* print("Fichiers concatenes dans " + str(output_file))
PrintMessage ==
    /\ pc = "print"
    /\ printed' = TRUE
    /\ pc' = "done"
    /\ UNCHANGED <<env, files, idx, buf, outOpen, inOpen, history>>

\* An exception leaves the with block of out: out is flushed and closed, and
\* the script ends with a traceback, before the print statement.
CloseOutputOnError ==
    /\ pc = "unwind"
    /\ data' = [data EXCEPT ![output_file] = Flushed(@, buf)]
    /\ lastOut' = Flushed(data[output_file], buf)
    /\ prevOut' = lastOut
    /\ buf' = <<>>
    /\ outOpen' = FALSE
    /\ pc' = "failed"
    /\ UNCHANGED <<platform, listing, nested, fault, files, idx, inOpen, printed,
                   runHistory>>

Next ==
    \/ OpenOutput
    \/ Enumerate
    \/ OpenInput
    \/ OpenInputFails
    \/ ReadAndWrite
    \/ ReadFails
    \/ CloseInput
    \/ WriteSeparator
    \/ CloseOutput
    \/ PrintMessage
    \/ CloseOutputOnError

Spec == Init /\ [][Next]_vars

(***************************************************************************)
(* Several runs, with the directory changed between them.                  *)
(***************************************************************************)
\* The names and contents the changes between runs draw from.
RunNames == {NameLowerA, NameUpperA, NameTxt}
EditContents == {<<>>, <<120>>}

InitRuns ==
    \E plat \in Platforms, l \in Arrangements(RunNames, MaxFiles), old \in BOOLEAN :
        /\ Coexist(l, plat)
        /\ LET ll == IF old THEN Append(l, output_file) ELSE l
           IN  \E flt \in Faults(ll, plat) : Start(ll, DefaultData(ll, {}), plat, {}, flt)

\* Whether the script is not running and another run will follow.
BetweenRuns == pc \in {"done", "failed"} /\ runs < MaxRuns

\* A file appears in the working directory, anywhere in its enumeration order.
CreateFile ==
    /\ BetweenRuns
    /\ edits < MaxEdits
    /\ \E n \in RunNames \ Range(listing), p \in 1..(Len(listing) + 1) :
        /\ Coexist(InsertAt(listing, p, n), platform)
        /\ listing' = InsertAt(listing, p, n)
        /\ data' = (n :> DefaultContent(n)) @@ data
    /\ edits' = edits + 1
    /\ pending' = TRUE
    /\ UNCHANGED <<platform, nested, fault, pc, files, idx, buf, outOpen, inOpen, printed,
                   runs, changed, prevDone, prevOut, lastOut, prevSnap, curSnap>>

\* A file of the working directory is deleted.
DeleteFile ==
    /\ BetweenRuns
    /\ edits < MaxEdits
    /\ \E k \in 1..Len(listing) :
        /\ listing' = SubSeq(listing, 1, k - 1) \o SubSeq(listing, k + 1, Len(listing))
        /\ data' = [n \in DOMAIN data \ {listing[k]} |-> data[n]]
        /\ fault' = IF fault.name = listing[k] THEN NoFault ELSE fault
    /\ edits' = edits + 1
    /\ pending' = TRUE
    /\ UNCHANGED <<platform, nested, pc, files, idx, buf, outOpen, inOpen, printed,
                   runs, changed, prevDone, prevOut, lastOut, prevSnap, curSnap>>

\* The content of a file of the working directory is replaced.
ModifyFile ==
    /\ BetweenRuns
    /\ edits < MaxEdits
    /\ \E n \in Range(listing), c \in EditContents :
        /\ c # data[n]
        /\ data' = [data EXCEPT ![n] = c]
    /\ edits' = edits + 1
    /\ pending' = TRUE
    /\ UNCHANGED <<platform, listing, nested, fault, pc, files, idx, buf, outOpen, inOpen,
                   printed, runs, changed, prevDone, prevOut, lastOut, prevSnap, curSnap>>

\* The script is started again.
Rerun ==
    /\ BetweenRuns
    /\ pc' = "open"
    /\ runs' = runs + 1
    /\ files' = <<>>
    /\ idx' = 0
    /\ printed' = FALSE
    /\ changed' = pending
    /\ pending' = FALSE
    /\ prevDone' = (pc = "done")
    /\ UNCHANGED <<env, buf, outOpen, inOpen, edits, prevOut, lastOut, prevSnap, curSnap>>

NextRuns ==
    \/ Next
    \/ CreateFile
    \/ DeleteFile
    \/ ModifyFile
    \/ Rerun

SpecRuns == InitRuns /\ [][NextRuns]_vars

(***************************************************************************)
(* What the claims speak of, stated without the operators of the script.   *)
(***************************************************************************)
\* A newline as the output file holds it: the platform's line terminator.
Newline == IF platform = "nt" THEN <<13, 10>> ELSE <<10>>

\* Whether name ends with suffix, letter case ignored when fold is TRUE.
EndsWith(name, suffix, fold) ==
    /\ Len(name) >= Len(suffix)
    /\ \A k \in 1..Len(suffix) :
        LET c == Ord[name[Len(name) - Len(suffix) + k]]
            d == Ord[suffix[k]]
        IN  IF fold THEN LowerCode(c) = LowerCode(d) ELSE c = d

\* The files of the working directory itself whose name ends with
\* "CrudManager.java" (letter case ignored on Windows).
Included == {n \in Range(listing) : EndsWith(n, CrudManagerJava, platform = "nt")}

\* Whether fs is in case-insensitive lexicographic order of name.
InOrder(fs) ==
    \A j, k \in 1..Len(fs) : j < k => ~StrLess(NameLower(fs[k]), NameLower(fs[j]))

\* Whether byte k of b is part of a decodable UTF-8 sequence.
Decodable(b, k) ==
    \/ b[k] < 128
    \/ b[k] \in 194..223 /\ k < Len(b) /\ b[k + 1] \in 128..191
    \/ b[k] \in 128..191 /\ k > 1 /\ b[k - 1] \in 194..223

RECURSIVE KeptFrom(_, _)
KeptFrom(b, k) ==
    IF k > Len(b) THEN <<>>
    ELSE (IF Decodable(b, k) THEN <<b[k]>> ELSE <<>>) \o KeptFrom(b, k + 1)

\* b without its undecodable bytes.
KeptBytes(b) == KeptFrom(b, 1)

RECURSIVE LineEnds(_)
\* b with every line ending ("\r\n", "\r" or "\n") as a newline of the platform.
LineEnds(b) ==
    IF b = <<>> THEN <<>>
    ELSE IF b[1] = 13 /\ Len(b) >= 2 /\ b[2] = 10
         THEN Newline \o LineEnds(SubSeq(b, 3, Len(b)))
    ELSE IF b[1] \in {10, 13} THEN Newline \o LineEnds(Tail(b))
    ELSE <<b[1]>> \o LineEnds(Tail(b))

\* The content of a file as text: undecodable bytes dropped, line endings
\* normalised.
TextOf(name) == LineEnds(KeptBytes(data[name]))

\* 100 dashes.
Dashes == [k \in 1..100 |-> 45]

\* What the output holds for one file: its text, a newline, the dashes, a newline.
Block(name) == TextOf(name) \o Newline \o Dashes \o Newline

\* The same with the file's bytes as they are.
RawBlock(name) == data[name] \o Newline \o Dashes \o Newline

\* The blocks of the first n files of fs, concatenated.
Blocks(fs, n) == Flatten([k \in 1..n |-> Block(fs[k])])

(***************************************************************************)
(* The claims.                                                             *)
(***************************************************************************)
\* C1, as stated: after a run that completes, the output file is exactly,
\* for every matched file in case-insensitive order of name, the file's
\* content as it is, a newline, 100 dashes and a newline.
C1_RawContent ==
    pc = "done" =>
        /\ Range(files) = Included /\ NoRepeat(files) /\ InOrder(files)
        /\ data[output_file] = Flatten([k \in 1..Len(files) |-> RawBlock(files[k])])

\* C1, amended: after a run that completes, the output file is exactly, for
\* every matched file in case-insensitive order of name, the file's content
\* read as text (undecodable bytes dropped, every line ending turned into a
\* newline), a newline, 100 dashes and a newline, each newline written as
\* the platform's line terminator.
C1_Concatenation ==
    pc = "done" =>
        /\ Range(files) = Included /\ NoRepeat(files) /\ InOrder(files)
        /\ data[output_file] = Blocks(files, Len(files))

\* Two files were concatenated, the first with a carriage return in it.
C1_Witness ==
    /\ pc = "done"
    /\ files = <<NameLowerA, NameUpperB>>
    /\ data[NameLowerA] = <<13, 120>>
    /\ Len(data[output_file]) > 200

\* C2, as stated: in a directory holding a.CrudManager, B.CrudManager and
\* c.txt a run includes a.CrudManager then B.CrudManager and nothing else.
C2_DotCrudManager ==
    (pc = "done" /\ Range(listing) \ {output_file} = {NameDotA, NameDotB, NameTxt}) =>
        /\ files = <<NameDotA, NameDotB>>
        /\ data[output_file] = Blocks(files, 2)

\* C2, amended: in a directory holding aCrudManager.java, BCrudManager.java
\* and c.txt a run includes aCrudManager.java then BCrudManager.java and
\* nothing else; in general the run iterates over exactly the files of the
\* working directory itself (not of a subdirectory) whose name ends with
\* "CrudManager.java", letter case ignored on Windows only; a.CrudManager
\* and B.CrudManager are not among them.
C2_Selection ==
    pc \notin {"open", "glob"} =>
        /\ Range(files) = Included /\ NoRepeat(files)
        /\ Range(files) \cap (nested \cup {NameDotA, NameDotB, NameTxt}) = {}
        /\ Range(listing) \ {output_file} = {NameLowerA, NameUpperB, NameTxt}
               => files = <<NameLowerA, NameUpperB>>
        /\ pc = "done" => data[output_file] = Blocks(files, Len(files))

\* The run over aCrudManager.java, BCrudManager.java and c.txt has ended,
\* with a matching file in the subdirectory left out.
C2_Witness ==
    /\ pc = "done"
    /\ Range(listing) \ {output_file} = {NameLowerA, NameUpperB, NameTxt}
    /\ files = <<NameLowerA, NameUpperB>>
    /\ nested = {NameNested}
    /\ data[output_file] = Block(NameLowerA) \o Block(NameUpperB)

\* C3: a second run over an unchanged directory does not take the output
\* file of the first run as an input and leaves the same bytes in it.
C3_Idempotent ==
    /\ runs >= 2 /\ pc \notin {"open", "glob"} => output_file \notin Range(files)
    /\ (pc \in {"print", "done"} /\ runs >= 2 /\ prevDone /\ ~changed) => lastOut = prevOut

\* A second run over an unchanged directory with two matched files has ended.
C3_Witness ==
    /\ pc = "done" /\ runs = 2 /\ prevDone /\ ~changed
    /\ Len(files) = 2
    /\ lastOut = prevOut /\ lastOut # <<>>

\* C4: when a run has completed, the output file holds exactly the blocks
\* of the files matched in this run, whatever earlier runs wrote and
\* whatever changed since.
C4_Overwritten ==
    pc = "print" =>
        /\ Range(files) = Included
        /\ data[output_file] = Blocks(files, Len(files))

\* A later run has completed after the directory changed, and its output
\* differs from what the run before it left.
C4_Witness ==
    /\ pc = "print" /\ runs >= 2 /\ prevDone /\ changed
    /\ prevOut # <<>>
    /\ data[output_file] # prevOut
    /\ Len(data[output_file]) < Len(prevOut)

\* C5: with no matching file the run does not fail, the output file exists
\* and is empty once the run has closed it, and the message is printed.
C5_NoMatch ==
    Included = {} =>
        /\ pc \notin {"unwind", "failed"}
        /\ pc \in {"print", "done"} =>
               output_file \in Range(listing) /\ data[output_file] = <<>>
        /\ pc = "done" => printed

\* A run with no matching file has ended in a directory that has other
\* files and had no output file.
C5_Witness ==
    /\ pc = "done" /\ printed
    /\ Included = {}
    /\ NameTxt \in Range(listing)
    /\ listing[Len(listing)] # output_file
    /\ data[output_file] = <<>>

\* C6: undecodable bytes in a matched file do not make the run fail: unless
\* a file cannot be opened or read, the run never unwinds; what it writes
\* for the file is the file's text without the undecodable bytes, after the
\* blocks of the files before it; the files after it follow and the run
\* ends with its message.
C6_DecodingIgnored ==
    fault = NoFault =>
        /\ pc \notin {"unwind", "failed"}
        /\ pc = "close" => buf = Blocks(files, idx - 1) \o TextOf(files[idx])
        /\ pc = "done" => printed /\ idx = Len(files) + 1
                             /\ data[output_file] = Blocks(files, Len(files))

\* A run has ended with its message after a file with an undecodable byte
\* and then a second file.
C6_Witness ==
    /\ pc = "done" /\ printed /\ fault = NoFault
    /\ files = <<NameLowerA, NameUpperB>>
    /\ data[NameLowerA] = <<120, 255>>
    /\ data[output_file] = <<120>> \o Newline \o Dashes \o Newline \o Block(NameUpperB)

\* C7: when the k-th matched file cannot be opened or read, the run ends
\* there: nothing follows, the message is not printed, and the output file
\* holds exactly the blocks of the k-1 files before it.
C7_PartialOutput ==
    /\ pc \in {"unwind", "failed"} =>
        /\ idx \in 1..Len(files) /\ fault.name = files[idx]
        /\ ~printed
    /\ pc = "failed" =>
        /\ ~ENABLED Next
        /\ data[output_file] = Blocks(files, idx - 1)
    /\ pc \in {"print", "done"} => fault.name \notin Range(files)

\* The read of the second of three matched files failed, in a directory
\* that had an output file: the output holds the first block only.
C7_Witness ==
    /\ pc = "failed" /\ fault.kind = "read"
    /\ Len(files) = 3 /\ idx = 2
    /\ listing[Len(listing)] = output_file
    /\ data[output_file] = Block(files[1])
    /\ data[output_file] # StaleOutput

\* C8, as stated: the matching files are enumerated and sorted before the
\* output file is opened, so until then it is not open and keeps the
\* content the previous run left.
C8_EnumerateFirst ==
    (runs >= 2 /\ pc \in {"open", "glob"} /\ ~changed /\ lastOut # <<>>) =>
        ~outOpen /\ data[output_file] = lastOut

\* C8, amended: the output file is opened and truncated first; the
\* matching files are enumerated and sorted while it is open and already
\* empty, and before any input file is opened.
C8_OpenFirst ==
    /\ pc = "open" => ~outOpen /\ files = <<>> /\ inOpen = {}
    /\ pc = "glob" =>
        /\ outOpen /\ output_file \in Range(listing) /\ data[output_file] = <<>>
        /\ files = <<>> /\ inOpen = {} /\ buf = <<>>
    /\ pc = "loop" => outOpen /\ Range(files) = Included /\ InOrder(files)

\* A second run is about to enumerate: the output of the first run, which
\* was not empty, is gone.
C8_Witness ==
    /\ pc = "glob" /\ runs = 2 /\ prevDone /\ ~changed
    /\ lastOut # <<>>
    /\ outOpen /\ data[output_file] = <<>>

\* C9: never more than one input handle is open; the handle of a file is
\* closed before its separator is written, before the next file is opened
\* and when its read fails; no handle is open when the run has ended.
C9_Handles ==
    /\ Cardinality(inOpen) <= 1
    /\ pc \in {"read", "close"} => inOpen = {files[idx]}
    /\ pc \in {"sep", "loop", "unwind", "print", "done", "failed"} => inOpen = {}
    /\ pc \in {"print", "done", "failed"} => ~outOpen

\* The read of the second matched file failed and the run has ended.
C9_Witness ==
    /\ pc = "failed" /\ fault.kind = "read" /\ idx = 2
    /\ inOpen = {} /\ ~outOpen

\* C10: two completed runs that saw the same matched names with the same
\* contents left the same output.
C10_OrderIndependent ==
    (pc \in {"print", "done"} /\ runs >= 2 /\ prevDone /\ curSnap = prevSnap) =>
        lastOut = prevOut

====
